---- MODULE Spec2Model ----
(***************************************************************************)
(* A model of the user administration backend (backend/app): the user      *)
(* table with its soft-delete filter and unique username column, the       *)
(* token service, and the HTTP handlers of routers/users.py and            *)
(* routers/auth.py.  A handler is split at its database operations: one    *)
(* action is one database round trip together with the synchronous code    *)
(* that follows it, so that concurrent requests interleave exactly where   *)
(* the event loop (or a second worker process) lets them.                  *)
(***************************************************************************)
EXTENDS Integers, Sequences, FiniteSets, Bags, TLC

(* ------------------------------ bounds -------------------------------- *)

\* rows ever inserted into the users table
MaxId == 2
\* requests in flight at the same time
MaxReq == 2
\* tokens issued and still held by clients
MaxTokens == 2
\* steps of the clock while requests are served
MaxTicks == 1
\* steps of the clock while tokens age
MaxElapse == 3
\* requests accepted in one behaviour
MaxAccepted == 4
\* resolution of the clock: ticks per second
TicksPerSecond == 2
\* rows the groups table ever gets
MaxGroups == 1

Names == {"alice", "bob"}
Passwords == {"password1", "password2"}
GroupNames == {"staff", "sales"}

(* --------------------------- configuration ---------------------------- *)

jwt_secret_key == "my_secret_key"
jwt_algorithm == "HS256"
jwt_access_token_expire_minutes == 30
jwt_refresh_secret_key == "my_secret_key"
jwt_refresh_algorithm == "HS256"
jwt_refresh_token_expire_minutes == 1440

ACCESS_TOKEN_EXPIRE_MINUTE == jwt_access_token_expire_minutes
REFRESH_TOKEN_EXPIRE_MINUTE == jwt_refresh_token_expire_minutes
REFRESH_SECRET_KEY == jwt_refresh_secret_key
REFRESH_ALGORITHM == jwt_refresh_algorithm

\* timedelta(minutes=m) in ticks of the clock
timedelta(m) == m * 60 * TicksPerSecond

(* ------------------------------ the store ----------------------------- *)

\* deleted_at is nullable: NULL marks an active row
NULL == -1

\* a string stored in hashed_password as it is, without hashing
Raw(string) == [scheme |-> "", of |-> string]

\* pwd_context.hash: the stored value is never the plaintext itself.  The
\* salt is left out: two hashes of one plaintext are different strings, which
\* flush_update accounts for.
pwd_hash(plain) == [scheme |-> "bcrypt", of |-> plain]
\* pwd_context.verify
pwd_verify(plain, hashed) == hashed = pwd_hash(plain)

\* the absent row (None), shaped as a row so that it compares with one
None == [id |-> 0, username |-> "", hashed_password |-> pwd_hash(""),
         is_admin |-> FALSE, deleted_at |-> NULL]
\* scalar_one_or_none on more than one row raises MultipleResultsFound
MultipleResultsFound == [None EXCEPT !.id = -2]

VARIABLES
    users,   \* the users table: a set of rows
    nextId,  \* the next primary key
    now,     \* the clock, in ticks
    ticks,   \* how many times the clock has advanced
    tokens,  \* the tokens issued so far
    reqs,    \* the requests in flight (a bag)
    resp,    \* the response this step sends, if it sends one
    accepted, \* the number of requests accepted so far
    groups,  \* the groups table: a set of rows
    nextGroupId, \* the next primary key of a group
    session, \* request.session["token"] of the admin panel's browser
    events   \* what the last direct call of the store did, in order

\* the groups table
groupvars == <<groups, nextGroupId>>

\* the admin panel's session, and the record of a store call
adminvars == <<session, events>>

vars == <<users, nextId, now, ticks, tokens, reqs, resp, accepted, groupvars,
          adminvars>>

\* the listener without its criterion
filtering_deleted_at_off(row, include_deleted) == TRUE

\* _add_filtering_deleted_at: the criterion deleted_at IS NULL is added to
\* every select that does not carry include_deleted=True
filtering_deleted_at(row, include_deleted) ==
    include_deleted \/ row.deleted_at = NULL

scalar_one_or_none(rows) ==
    IF rows = {} THEN None
    ELSE IF Cardinality(rows) = 1 THEN CHOOSE r \in rows : TRUE
    ELSE MultipleResultsFound

get_all_users(include_deleted) ==
    {r \in users : filtering_deleted_at(r, include_deleted)}

get_user_by_id(user_id, include_deleted) ==
    scalar_one_or_none({r \in users : r.id = user_id
                                      /\ filtering_deleted_at(r, include_deleted)})

get_user_by_username(username, include_deleted) ==
    scalar_one_or_none({r \in users : r.username = username
                                      /\ filtering_deleted_at(r, include_deleted)})

IsRow(r) == r.id > 0

\* the column without its unique constraint
username_not_unique(table) == TRUE

\* username is declared unique=True: the constraint spans every row of the
\* table, soft-deleted rows included
username_unique(table) ==
    \A r1, r2 \in table : r1.username = r2.username => r1.id = r2.id

(* ------------------------------ tokens -------------------------------- *)

\* payload.get("sub") of a token whose claims carry no sub
NoSub == "<no sub>"

\* jwt.encode: the claims sub and exp, signed with key under alg.  A datetime
\* exp is written as whole seconds since the epoch.  typ, uid and iat are not
\* part of the token: they record which function issued it, for which user,
\* and when.
jwt_encode(sub, expire, key, alg, typ, uid) ==
    [sub |-> sub, exp |-> expire \div TicksPerSecond, key |-> key, alg |-> alg,
     typ |-> typ, uid |-> uid, iat |-> now]

\* a string that is no token at all ("invalid.token.string")
InvalidToken == [sub |-> NoSub, exp |-> 0, key |-> "", alg |-> "",
                 typ |-> "invalid", uid |-> 0, iat |-> 0]
\* a request that carries no token
NoToken == [InvalidToken EXCEPT !.typ = "none"]

\* the string of a token: the claims sub and exp and the signature that key
\* and alg give them
TokenString(token) ==
    [sub |-> token.sub, exp |-> token.exp, key |-> token.key, alg |-> token.alg]

\* jwt.decode with the expiry check switched off
ExpiredSignatureError_off(token) == FALSE

\* the expiry check of jwt.decode: exp is compared with the current time in
\* whole seconds, and the token is refused when exp < now
ExpiredSignatureError(token) ==
    token.exp < now \div TicksPerSecond

\* jwt.decode: the signature verifies under key with one of the algorithms,
\* and the token has not expired.  FALSE stands for the JWTError raised.
jwt_decode(token, key, algorithms) ==
    /\ token.key = key
    /\ token.alg \in algorithms
    /\ ~ExpiredSignatureError(token)

\* decode_token(token, secret_key, algorithms)
decode_token(token, secret_key, algorithms) ==
    jwt_decode(token, secret_key, algorithms)

create_access_token(sub, expires_delta, uid) ==
    jwt_encode(sub, now + expires_delta, jwt_secret_key, jwt_algorithm,
               "access", uid)

create_refresh_token(sub, expires_delta, uid) ==
    jwt_encode(sub, now + expires_delta, jwt_refresh_secret_key,
               jwt_refresh_algorithm, "refresh", uid)

(* ----------------------------- requests ------------------------------- *)

EmptyBody == [f \in {} |-> ""]

NewReq(op) ==
    [op |-> op, pc |-> "start", token |-> NoToken, caller |-> None, target |-> 0,
     body |-> EmptyBody, obj |-> None, issued |-> NoToken, status |-> 0,
     detail |-> ""]

\* the response of a request: a status code and the detail of its error
Answer(r, status, detail) ==
    [r EXCEPT !.pc = "done", !.status = status, !.detail = detail]

\* an exception no handler catches is answered 500 by the server
Raise(r, exception) == Answer(r, 500, exception)

\* no response is sent in this step
NoResp == NewReq("")

InFlight == BagToSet(reqs)
Room == BagCardinality(reqs) < MaxReq /\ accepted < MaxAccepted

\* a request arrives and has run up to its next await: it is now r
Accept(r) ==
    /\ accepted' = accepted + 1
    /\ IF r.pc = "done"
       THEN reqs' = reqs /\ resp' = r
       ELSE reqs' = reqs (+) SetToBag({r}) /\ resp' = NoResp

\* the request r in flight runs up to its next await: it is now r2
Step(r, r2) ==
    /\ accepted' = accepted
    /\ IF r2.pc = "done"
       THEN reqs' = reqs (-) SetToBag({r}) /\ resp' = r2
       ELSE reqs' = (reqs (-) SetToBag({r})) (+) SetToBag({r2}) /\ resp' = NoResp

(* -------------------------- POST /users/ ------------------------------ *)

\* UserCreate.model_dump(): is_admin defaults to False and is always dumped
UserCreate(username, password, is_admin) ==
    [username |-> username, password |-> password, is_admin |-> is_admin]

\* create_user (router), up to the await of from_schema: the duplicate check
create_user_check(username, password, is_admin) ==
    /\ Room
    /\ LET r == [NewReq("create_user") EXCEPT
                     !.body = UserCreate(username, password, is_admin)]
           exist_user == get_user_by_username(username, FALSE)
       IN  IF exist_user = MultipleResultsFound
           THEN Accept(Raise(r, "MultipleResultsFound"))
           ELSE IF IsRow(exist_user)
           THEN Accept(Answer(r, 400, "Username already exists"))
           ELSE Accept([r EXCEPT !.pc = "from_schema"])
    /\ UNCHANGED <<users, nextId, now, ticks, tokens, groupvars, adminvars>>

\* User.create_user: hash the password, build the row, commit on leaving the
\* session
create_user_insert(r) ==
    /\ r.op = "create_user" /\ r.pc = "from_schema"
    /\ LET new_user == [id |-> nextId,
                        username |-> r.body.username,
                        hashed_password |-> pwd_hash(r.body.password),
                        is_admin |-> r.body.is_admin,
                        deleted_at |-> NULL]
       IN  IF ~username_unique(users \cup {new_user})
           THEN /\ Step(r, Raise(r, "IntegrityError"))
                /\ UNCHANGED <<users, nextId>>
           ELSE /\ nextId <= MaxId
                /\ users' = users \cup {new_user}
                /\ nextId' = nextId + 1
                /\ Step(r, Answer([r EXCEPT !.obj = new_user], 200, ""))
    /\ UNCHANGED <<now, ticks, tokens, groupvars, adminvars>>

(* --------------------------- authentication --------------------------- *)

\* authenticate_user without the password check
authenticate_user_by_name(username, password) ==
    LET user == scalar_one_or_none({r \in users : r.username = username
                                                   /\ r.deleted_at = NULL})
    IN  user

\* authenticate_user: the active user of that name whose password verifies,
\* None in every other case
authenticate_user(username, password) ==
    LET user == get_user_by_username(username, FALSE)
    IN  IF user = MultipleResultsFound THEN MultipleResultsFound
        ELSE IF ~IsRow(user) THEN None
        ELSE IF ~pwd_verify(password, user.hashed_password) THEN None
        ELSE user

\* get_current_user looking the user up among the deleted rows too
get_current_user_include_deleted(token) ==
    IF ~(token.key = jwt_secret_key /\ token.alg = jwt_algorithm
         /\ ~(token.exp < now \div TicksPerSecond)) THEN None
    ELSE IF token.sub = NoSub THEN None
    ELSE scalar_one_or_none({r \in users : r.username = token.sub})

\* get_current_user: the active user named by the sub of an access token.
\* None stands for credentials_exception (401).
get_current_user(token) ==
    IF ~jwt_decode(token, jwt_secret_key, {jwt_algorithm}) THEN None
    ELSE IF token.sub = NoSub THEN None
    ELSE get_user_by_username(token.sub, FALSE)

\* the tokens a client can present: the issued ones and any other string
Presentable == tokens \cup {InvalidToken}

\* the dependency letting every request through, with whatever
\* get_current_user found
Depends_anyone(r, token) ==
    [r EXCEPT !.token = token, !.caller = get_current_user(token),
              !.pc = "authenticated"]

\* the part of a protected handler that the dependency get_current_user
\* decides: the request r with the caller resolved, or its 401.  A request
\* without an Authorization header is answered 401 by oauth2_scheme, one
\* whose token resolves to no user by get_current_user.
Depends_get_current_user(r, token) ==
    LET current_user == get_current_user(token)
        q == [r EXCEPT !.token = token]
    IN  IF token = NoToken
        THEN Answer(NewReq(r.op), 401, "Not authenticated")
        ELSE IF current_user = MultipleResultsFound
        THEN Raise(q, "MultipleResultsFound")
        ELSE IF ~IsRow(current_user)
        THEN Answer([NewReq(r.op) EXCEPT !.token = token], 401,
                    "Could not validate credentials")
        ELSE [q EXCEPT !.caller = current_user, !.pc = "authenticated"]

\* POST /auth/token
login_for_access_token(username, password) ==
    /\ Room
    /\ LET r == [NewReq("login_for_access_token") EXCEPT
                     !.body = [username |-> username, password |-> password]]
           user == authenticate_user(username, password)
           access_token == create_access_token(
               user.username, timedelta(ACCESS_TOKEN_EXPIRE_MINUTE), user.id)
           refresh_token == create_refresh_token(
               user.username, timedelta(REFRESH_TOKEN_EXPIRE_MINUTE), user.id)
       IN  IF user = MultipleResultsFound
           THEN Accept(Raise(r, "MultipleResultsFound")) /\ UNCHANGED tokens
           ELSE IF ~IsRow(user)
           THEN /\ Accept(Answer(r, 401, "Incorrect username or password"))
                /\ UNCHANGED tokens
           ELSE /\ tokens' = tokens \cup {access_token, refresh_token}
                /\ Cardinality(tokens') <= MaxTokens
                /\ Accept(Answer([r EXCEPT !.obj = user, !.issued = access_token],
                                 200, ""))
    /\ UNCHANGED <<users, nextId, now, ticks, groupvars, adminvars>>

\* POST /auth/refresh looking the user up among the soft-deleted rows too
refresh_access_token_include_deleted(refresh_token) ==
    /\ Room
    /\ LET r == [NewReq("refresh_access_token") EXCEPT !.token = refresh_token]
           user == get_user_by_username(refresh_token.sub, TRUE)
           access_token == create_access_token(
               refresh_token.sub, timedelta(ACCESS_TOKEN_EXPIRE_MINUTE), user.id)
       IN  IF ~decode_token(refresh_token, REFRESH_SECRET_KEY, {REFRESH_ALGORITHM})
           THEN Accept(Answer(r, 401, "Invalid refresh token")) /\ UNCHANGED tokens
           ELSE IF refresh_token.sub = NoSub
           THEN Accept(Answer(r, 401, "Invalid refresh token")) /\ UNCHANGED tokens
           ELSE IF user = MultipleResultsFound
           THEN Accept(Raise(r, "MultipleResultsFound")) /\ UNCHANGED tokens
           ELSE IF ~IsRow(user)
           THEN Accept(Answer(r, 401, "User not found")) /\ UNCHANGED tokens
           ELSE /\ tokens' = tokens \cup {access_token}
                /\ Cardinality(tokens') <= MaxTokens
                /\ Accept(Answer([r EXCEPT !.obj = user, !.issued = access_token],
                                 200, ""))
    /\ UNCHANGED <<users, nextId, now, ticks, groupvars, adminvars>>

refresh_access_token(refresh_token) ==
    /\ Room
    /\ LET r == [NewReq("refresh_access_token") EXCEPT !.token = refresh_token]
           user == get_user_by_username(refresh_token.sub, FALSE)
           access_token == create_access_token(
               refresh_token.sub, timedelta(ACCESS_TOKEN_EXPIRE_MINUTE), user.id)
       IN  IF ~decode_token(refresh_token, REFRESH_SECRET_KEY, {REFRESH_ALGORITHM})
           THEN Accept(Answer(r, 401, "Invalid refresh token")) /\ UNCHANGED tokens
           ELSE IF refresh_token.sub = NoSub
           THEN Accept(Answer(r, 401, "Invalid refresh token")) /\ UNCHANGED tokens
           ELSE IF user = MultipleResultsFound
           THEN Accept(Raise(r, "MultipleResultsFound")) /\ UNCHANGED tokens
           ELSE IF ~IsRow(user)
           THEN Accept(Answer(r, 401, "User not found")) /\ UNCHANGED tokens
           ELSE /\ tokens' = tokens \cup {access_token}
                /\ Cardinality(tokens') <= MaxTokens
                /\ Accept(Answer([r EXCEPT !.obj = user, !.issued = access_token],
                                 200, ""))
    /\ UNCHANGED <<users, nextId, now, ticks, groupvars, adminvars>>

\* create_access_token called with claims that carry no sub
create_access_token_without_sub ==
    /\ tokens' = tokens \cup
           {create_access_token(NoSub, timedelta(jwt_access_token_expire_minutes), 0)}
    /\ Cardinality(tokens') <= MaxTokens
    /\ tokens' # tokens
    /\ resp' = NoResp
    /\ UNCHANGED <<users, nextId, now, ticks, reqs, accepted, groupvars, adminvars>>

(* ------------------- PUT /users/me, PUT /users/{user_id} -------------- *)

\* the payloads of an update: model_dump(exclude_unset=True) keeps exactly the
\* fields the request names
UserUpdate ==
    {EmptyBody}
    \cup {[username |-> n] : n \in Names}
    \cup {[is_admin |-> a] : a \in BOOLEAN}
    \cup {[password |-> p] : p \in Passwords}
    \cup {[username |-> n, is_admin |-> TRUE] : n \in Names}

\* user_in.is_admin: UserBase gives is_admin the default False
user_in_is_admin(body) ==
    IF "is_admin" \in DOMAIN body THEN body.is_admin ELSE FALSE

\* update_user_me without its check of is_admin
update_user_me_unchecked(token, user_in) ==
    /\ Room
    /\ LET r == Depends_get_current_user(
                    [NewReq("update_user_me") EXCEPT !.body = user_in], token)
       IN  IF r.pc = "done" THEN Accept(r)
           ELSE Accept([r EXCEPT !.obj = r.caller, !.target = r.caller.id,
                                 !.pc = "update_user"])
    /\ UNCHANGED <<users, nextId, now, ticks, tokens, groupvars, adminvars>>

\* update_user_me, up to the await of update_from_schema
update_user_me(token, user_in) ==
    /\ Room
    /\ LET r == Depends_get_current_user(
                    [NewReq("update_user_me") EXCEPT !.body = user_in], token)
       IN  IF r.pc = "done" THEN Accept(r)
           ELSE IF user_in_is_admin(user_in) # r.caller.is_admin
           THEN Accept(Answer(r, 403,
                    "Not enough permissions. Only admins can change admin privileges."))
           ELSE Accept([r EXCEPT !.obj = r.caller, !.target = r.caller.id,
                                 !.pc = "update_user"])
    /\ UNCHANGED <<users, nextId, now, ticks, tokens, groupvars, adminvars>>

\* update_user (router) without its admin check
update_user_unchecked(token, user_id, user_in) ==
    /\ Room
    /\ LET r == Depends_get_current_user(
                    [NewReq("update_user") EXCEPT !.body = user_in,
                                                  !.target = user_id], token)
       IN  IF r.pc = "done" THEN Accept(r)
           ELSE Accept([r EXCEPT !.pc = "get_user_by_id"])
    /\ UNCHANGED <<users, nextId, now, ticks, tokens, groupvars, adminvars>>

\* update_user (router), up to the await of get_user_by_id
update_user(token, user_id, user_in) ==
    /\ Room
    /\ LET r == Depends_get_current_user(
                    [NewReq("update_user") EXCEPT !.body = user_in,
                                                  !.target = user_id], token)
       IN  IF r.pc = "done" THEN Accept(r)
           ELSE IF ~r.caller.is_admin
           THEN Accept(Answer(r, 403,
                    "Not enough permissions. Only admins can update other users."))
           ELSE Accept([r EXCEPT !.pc = "get_user_by_id"])
    /\ UNCHANGED <<users, nextId, now, ticks, tokens, groupvars, adminvars>>

\* update_user (router): the existence check
update_user_lookup(r) ==
    /\ r.op = "update_user" /\ r.pc = "get_user_by_id"
    /\ LET user == get_user_by_id(r.target, FALSE)
       IN  IF ~IsRow(user)
           THEN Step(r, Answer(r, 404, "User not found"))
           ELSE Step(r, [r EXCEPT !.obj = user, !.pc = "update_user"])
    /\ UNCHANGED <<users, nextId, now, ticks, tokens, groupvars, adminvars>>

\* User.update_user: the row is read again and its deleted state checked.
\* ValueError is caught by the router update_user alone; the bare Exception
\* by neither.
User_update_user_check(r) ==
    /\ r.op \in {"update_user_me", "update_user"} /\ r.pc = "update_user"
    /\ LET current_user == get_user_by_id(r.obj.id, TRUE)
       IN  IF ~IsRow(current_user)
           THEN IF r.op = "update_user"
                THEN Step(r, Answer(r, 404, "User not found"))
                ELSE Step(r, Raise(r, "ValueError"))
           ELSE IF current_user.deleted_at # NULL
           THEN Step(r, Raise(r, "Cannot update deleted user"))
           ELSE Step(r, [r EXCEPT !.pc = "commit"])
    /\ UNCHANGED <<users, nextId, now, ticks, tokens, groupvars, adminvars>>

\* update_data with the password stored as it came
update_data_plain(obj_in) ==
    [f \in (DOMAIN obj_in \ {"password"})
           \cup (IF "password" \in DOMAIN obj_in THEN {"hashed_password"} ELSE {})
       |-> IF f = "hashed_password" /\ "password" \in DOMAIN obj_in
           THEN Raw(obj_in.password) ELSE obj_in[f]]

\* update_data: the payload with password replaced by hashed_password
update_data(obj_in) ==
    [f \in (DOMAIN obj_in \ {"password"})
           \cup (IF "password" \in DOMAIN obj_in THEN {"hashed_password"} ELSE {})
       |-> IF f = "hashed_password" /\ "password" \in DOMAIN obj_in
           THEN pwd_hash(obj_in.password) ELSE obj_in[f]]

\* setattr on db_obj, field by field
setattr_all(db_obj, data) ==
    [f \in DOMAIN db_obj |-> IF f \in DOMAIN data THEN data[f] ELSE db_obj[f]]

\* a flush that writes every column of db_obj
flush_update_every_column(table, loaded, db_obj, data) ==
    {IF row.id = loaded.id THEN db_obj ELSE row : row \in table}

\* the UPDATE a flush emits for db_obj: the columns whose value differs from
\* the loaded one are written to the row of that primary key.  A password in
\* the payload always counts: its hash carries a fresh salt, so it differs
\* from the loaded hash even when the plaintext is the same.
flush_update(table, loaded, db_obj, data) ==
    {IF row.id = loaded.id
     THEN [f \in DOMAIN row |->
              IF db_obj[f] # loaded[f]
                 \/ (f = "hashed_password" /\ f \in DOMAIN data)
              THEN db_obj[f] ELSE row[f]]
     ELSE row : row \in table}

\* User.update_user: set the fields, commit, refresh
User_update_user_commit(r) ==
    /\ r.op \in {"update_user_me", "update_user"} /\ r.pc = "commit"
    /\ LET db_obj == setattr_all(r.obj, update_data(r.body))
           table == flush_update(users, r.obj, db_obj, update_data(r.body))
       IN  IF ~\E row \in users : row.id = r.obj.id
           THEN Step(r, Raise(r, "StaleDataError")) /\ UNCHANGED users
           ELSE IF ~username_unique(table)
           THEN Step(r, Raise(r, "IntegrityError")) /\ UNCHANGED users
           ELSE /\ users' = table
                /\ Step(r, Answer(r, 200, ""))
    /\ UNCHANGED <<nextId, now, ticks, tokens, groupvars, adminvars>>

(* ------- DELETE /users/{user_id}, DELETE /users/{user_id}/permanent ---- *)

DeleteOps == {"delete_user", "delete_user_permanently"}

\* delete_user, delete_user_permanently (routers): the caller is resolved
delete_user(op, token, user_id) ==
    /\ Room
    /\ op \in DeleteOps
    /\ LET r == Depends_get_current_user(
                    [NewReq(op) EXCEPT !.target = user_id], token)
       IN  IF r.pc = "done" THEN Accept(r)
           ELSE Accept([r EXCEPT !.pc = "get_user_by_id"])
    /\ UNCHANGED <<users, nextId, now, ticks, tokens, groupvars, adminvars>>

\* the existence check, and after it the admin check
delete_user_lookup(r) ==
    /\ r.op \in DeleteOps /\ r.pc = "get_user_by_id"
    /\ LET user == get_user_by_id(r.target, FALSE)
       IN  IF ~IsRow(user)
           THEN Step(r, Answer(r, 404, "User not found"))
           ELSE IF ~r.caller.is_admin
           THEN Step(r, Answer(r, 403,
                    "Not enough permissions. Only admins can delete users."))
           ELSE Step(r, [r EXCEPT !.pc = "delete"])
    /\ UNCHANGED <<users, nextId, now, ticks, tokens, groupvars, adminvars>>

\* User.delete_user, User.delete_user_permanently: the row is read with
\* include_deleted=True; None is used as a row without a check
User_delete_user_get(r) ==
    /\ r.op \in DeleteOps /\ r.pc = "delete"
    /\ LET user == get_user_by_id(r.target, TRUE)
       IN  IF ~IsRow(user)
           THEN Step(r, Raise(r, IF r.op = "delete_user" THEN "AttributeError"
                                 ELSE "UnmappedInstanceError"))
           ELSE Step(r, [r EXCEPT !.obj = user, !.pc = "commit"])
    /\ UNCHANGED <<users, nextId, now, ticks, tokens, groupvars, adminvars>>

\* User.delete_user: deleted_at = func.now(), commit
User_delete_user_commit(r) ==
    /\ r.op = "delete_user" /\ r.pc = "commit"
    /\ IF ~\E row \in users : row.id = r.obj.id
       THEN Step(r, Raise(r, "StaleDataError")) /\ UNCHANGED users
       ELSE /\ users' = {IF row.id = r.obj.id THEN [row EXCEPT !.deleted_at = now]
                         ELSE row : row \in users}
            /\ Step(r, Answer(r, 200, "User deleted successfully"))
    /\ UNCHANGED <<nextId, now, ticks, tokens, groupvars, adminvars>>

\* User.delete_user_permanently: session.delete, commit.  A DELETE that
\* matches no row is a warning, not an error.
User_delete_user_permanently_commit(r) ==
    /\ r.op = "delete_user_permanently" /\ r.pc = "commit"
    /\ users' = {row \in users : row.id # r.obj.id}
    /\ Step(r, Answer(r, 200, "User deleted successfully"))
    /\ UNCHANGED <<nextId, now, ticks, tokens, groupvars, adminvars>>

(* ---------- GET /users/{user_id}, /users/username/..., /users/ -------- *)

ReadOps == {"read_user_by_id", "read_user_by_username", "read_all_users"}

\* a protected handler up to its first await: the request waits at pc
Protected(r, token, pc) ==
    /\ Room
    /\ LET q == Depends_get_current_user(r, token)
       IN  IF q.pc = "done" THEN Accept(q) ELSE Accept([q EXCEPT !.pc = pc])
    /\ UNCHANGED <<users, nextId, now, ticks, tokens, groupvars, adminvars>>

read_user_by_id(token, user_id) ==
    Protected([NewReq("read_user_by_id") EXCEPT !.target = user_id], token,
              "get_user_by_id")

read_user_by_username(token, username) ==
    Protected([NewReq("read_user_by_username") EXCEPT
                   !.body = [username |-> username]], token,
              "get_user_by_username")

read_all_users(token) ==
    Protected(NewReq("read_all_users"), token, "get_all_users")

\* the read of a read handler, and its answer
read_user(r) ==
    /\ r.op \in ReadOps /\ r.pc # "start"
    /\ LET user == IF r.op = "read_user_by_id" THEN get_user_by_id(r.target, FALSE)
                   ELSE IF r.op = "read_user_by_username"
                   THEN get_user_by_username(r.body.username, FALSE)
                   ELSE None
       IN  IF r.op = "read_all_users" THEN Step(r, Answer(r, 200, ""))
           ELSE IF user = MultipleResultsFound
           THEN Step(r, Raise(r, "MultipleResultsFound"))
           ELSE IF ~IsRow(user) THEN Step(r, Answer(r, 404, "User not found"))
           ELSE Step(r, Answer([r EXCEPT !.obj = user], 200, ""))
    /\ UNCHANGED <<users, nextId, now, ticks, tokens, groupvars, adminvars>>

(* ------------------------------ /groups ------------------------------- *)

GroupOps == {"create_group", "read_group_by_id", "read_all_groups",
             "update_group", "delete_group"}

\* the absent group (None), shaped as a group
NoGroup == [id |-> 0, groupname |-> ""]

\* Group.get_group_by_id: scalars().first()
get_group_by_id(group_id) ==
    IF \E g \in groups : g.id = group_id
    THEN CHOOSE g \in groups : g.id = group_id
    ELSE NoGroup

create_group(token, groupname) ==
    Protected([NewReq("create_group") EXCEPT !.body = [groupname |-> groupname]],
              token, "create_group")

\* Group.create_group: the row is committed on leaving the session
Group_create_group(r) ==
    /\ r.op = "create_group" /\ r.pc = "create_group"
    /\ nextGroupId <= MaxGroups
    /\ LET new_group == [id |-> nextGroupId, groupname |-> r.body.groupname]
       IN  /\ groups' = groups \cup {new_group}
           /\ nextGroupId' = nextGroupId + 1
           /\ Step(r, Answer([r EXCEPT !.obj = new_group], 200, ""))
    /\ UNCHANGED <<users, nextId, now, ticks, tokens, adminvars>>

read_group_by_id(token, group_id) ==
    Protected([NewReq("read_group_by_id") EXCEPT !.target = group_id], token,
              "get_group_by_id")

read_all_groups(token) ==
    Protected(NewReq("read_all_groups"), token, "get_all_groups")

\* the read of a group's read handler, and its answer
read_group(r) ==
    /\ r.op \in {"read_group_by_id", "read_all_groups"} /\ r.pc # "start"
    /\ LET group == get_group_by_id(r.target)
       IN  IF r.op = "read_all_groups" THEN Step(r, Answer(r, 200, ""))
           ELSE IF group = NoGroup THEN Step(r, Answer(r, 404, "Group not found"))
           ELSE Step(r, Answer([r EXCEPT !.obj = group], 200, ""))
    /\ UNCHANGED <<users, nextId, now, ticks, tokens, groupvars, adminvars>>

\* update_group and delete_group (routers), up to the await of
\* get_group_by_id
change_group(op, token, group_id, group_in) ==
    /\ op \in {"update_group", "delete_group"}
    /\ Protected([NewReq(op) EXCEPT !.target = group_id, !.body = group_in],
                 token, "get_group_by_id")

\* update_group (router): the existence check; there is no admin check
update_group_lookup(r) ==
    /\ r.op = "update_group" /\ r.pc = "get_group_by_id"
    /\ LET group == get_group_by_id(r.target)
       IN  IF group = NoGroup THEN Step(r, Answer(r, 404, "Group not found"))
           ELSE Step(r, [r EXCEPT !.obj = group, !.pc = "update_group"])
    /\ UNCHANGED <<users, nextId, now, ticks, tokens, groupvars, adminvars>>

\* Group.update_group: set the fields, commit, refresh
Group_update_group(r) ==
    /\ r.op = "update_group" /\ r.pc = "update_group"
    /\ IF ~\E g \in groups : g.id = r.obj.id
       THEN /\ Step(r, Raise(r, IF r.body.groupname # r.obj.groupname
                                THEN "StaleDataError" ELSE "InvalidRequestError"))
            /\ UNCHANGED groups
       ELSE /\ groups' = {IF g.id = r.obj.id /\ r.body.groupname # r.obj.groupname
                          THEN [g EXCEPT !.groupname = r.body.groupname]
                          ELSE g : g \in groups}
            /\ Step(r, Answer(r, 200, ""))
    /\ UNCHANGED <<users, nextId, now, ticks, tokens, nextGroupId, adminvars>>

\* the existence check of delete_group without the admin check after it
delete_group_lookup_unchecked(r) ==
    /\ r.op = "delete_group" /\ r.pc = "get_group_by_id"
    /\ LET group == get_group_by_id(r.target)
       IN  IF group = NoGroup THEN Step(r, Answer(r, 404, "Group not found"))
           ELSE Step(r, [r EXCEPT !.pc = "delete"])
    /\ UNCHANGED <<users, nextId, now, ticks, tokens, groupvars, adminvars>>

\* delete_group (router): the existence check, and after it the admin check
delete_group_lookup(r) ==
    /\ r.op = "delete_group" /\ r.pc = "get_group_by_id"
    /\ LET group == get_group_by_id(r.target)
       IN  IF group = NoGroup THEN Step(r, Answer(r, 404, "Group not found"))
           ELSE IF ~r.caller.is_admin
           THEN Step(r, Answer(r, 403,
                    "Not enough permissions. Only admins can delete groups."))
           ELSE Step(r, [r EXCEPT !.pc = "delete"])
    /\ UNCHANGED <<users, nextId, now, ticks, tokens, groupvars, adminvars>>

\* Group.delete_group_permanently: the group is read again, and nothing is
\* done when it is gone
Group_delete_group_get(r) ==
    /\ r.op = "delete_group" /\ r.pc = "delete"
    /\ LET group == get_group_by_id(r.target)
       IN  IF group = NoGroup
           THEN Step(r, Answer(r, 200, "Group deleted successfully"))
           ELSE Step(r, [r EXCEPT !.obj = group, !.pc = "commit"])
    /\ UNCHANGED <<users, nextId, now, ticks, tokens, groupvars, adminvars>>

\* Group.delete_group_permanently: session.delete, commit
Group_delete_group_commit(r) ==
    /\ r.op = "delete_group" /\ r.pc = "commit"
    /\ groups' = {g \in groups : g.id # r.obj.id}
    /\ Step(r, Answer(r, 200, "Group deleted successfully"))
    /\ UNCHANGED <<users, nextId, now, ticks, tokens, nextGroupId, adminvars>>

(* ------------- the store called directly, as the tests do ------------- *)

\* a plaintext shorter than 8 characters
TooShort == "short"

\* PasswordMixin.password_valid, which set_password runs through
\* UserPasswordSchema: not blank, 8 to 30 characters
password_valid(password) == Len(password) >= 8 /\ Len(password) <= 30

\* the dicts a caller passes to User.create_user as obj_in
CreateDicts ==
    {[username |-> n, password |-> p] : n \in Names, p \in Passwords \cup {TooShort}}
    \cup {[username |-> n, password |-> p, is_admin |-> TRUE] :
              n \in Names, p \in Passwords}
    \cup {[username |-> n, hashed_password |-> Raw(p)] : n \in Names, p \in Passwords}
    \cup {[username |-> n] : n \in Names}

\* the dicts a caller passes to User.update_user as obj_in
UpdateDicts ==
    {[username |-> n] : n \in Names}
    \cup {[password |-> p] : p \in Passwords \cup {TooShort}}
    \cup {[hashed_password |-> Raw(p)] : p \in Passwords}
    \cup {[is_admin |-> a] : a \in BOOLEAN}

\* what a call of the store does, as events in the order of the code
Enter == "AsyncContextManager.__aenter__"
Exit == "AsyncContextManager.__aexit__"
Hash == "pwd_context.hash"

\* get_user_by_id: one select in a session of its own
get_user_by_id_events == <<Enter, "session.execute", Exit>>

\* set_password: UserPasswordSchema validates, then pwd_context.hash runs
set_password_events(plain_password) ==
    IF password_valid(plain_password) THEN <<Hash>> ELSE <<"ValidationError">>

\* User.create_user: everything is done inside the async with block
create_user_events(obj_in) ==
    <<Enter>>
    \o (IF "password" \in DOMAIN obj_in
        THEN set_password_events(obj_in.password) ELSE <<>>)
    \o (IF "password" \in DOMAIN obj_in /\ ~password_valid(obj_in.password)
        THEN <<>> ELSE <<"session.add">>)
    \o <<Exit>>

\* User.update_user: the re-check, the hashing and the write are inside the
\* async with block
update_user_events(current_user, obj_in) ==
    <<Enter>> \o get_user_by_id_events
    \o (IF ~IsRow(current_user) THEN <<"ValueError">>
        ELSE IF current_user.deleted_at # NULL THEN <<"Exception">>
        ELSE (IF "password" \in DOMAIN obj_in
              THEN set_password_events(obj_in.password) ELSE <<>>)
             \o (IF "password" \in DOMAIN obj_in /\ ~password_valid(obj_in.password)
                 THEN <<>>
                 ELSE <<"session.add", "session.commit", "session.refresh">>))
    \o <<Exit>>

\* User.update_password: the password is hashed after the read, before the
\* row read is used
update_password_events(user, plain_password) ==
    <<Enter>> \o get_user_by_id_events
    \o set_password_events(plain_password)
    \o (IF ~password_valid(plain_password) THEN <<>>
        ELSE IF ~IsRow(user) THEN <<"AttributeError">>
        ELSE <<"session.add", "session.commit", "session.refresh">>)
    \o <<Exit>>

\* User.delete_user: the read and the write
delete_user_events == <<Enter>> \o get_user_by_id_events
                      \o <<"session.add", "session.commit", Exit>>

\* User.create_user(obj_in=...): a password is hashed, every other key of
\* the dict that is an attribute of User is set as it is
User_create_user(obj_in) ==
    /\ Room
    /\ LET r == [NewReq("User.create_user") EXCEPT !.body = obj_in]
           obj_data == update_data(obj_in)
           new_user == [id |-> nextId,
                        username |-> obj_data.username,
                        hashed_password |-> obj_data.hashed_password,
                        is_admin |-> IF "is_admin" \in DOMAIN obj_data
                                     THEN obj_data.is_admin ELSE FALSE,
                        deleted_at |-> NULL]
       IN  IF "password" \in DOMAIN obj_in /\ ~password_valid(obj_in.password)
           THEN Accept(Raise(r, "ValidationError")) /\ UNCHANGED <<users, nextId>>
           ELSE IF "hashed_password" \notin DOMAIN obj_data
           THEN Accept(Raise(r, "IntegrityError")) /\ UNCHANGED <<users, nextId>>
           ELSE IF ~username_unique(users \cup {new_user})
           THEN Accept(Raise(r, "IntegrityError")) /\ UNCHANGED <<users, nextId>>
           ELSE /\ nextId <= MaxId
                /\ users' = users \cup {new_user}
                /\ nextId' = nextId + 1
                /\ Accept(Answer([r EXCEPT !.obj = new_user], 200, ""))
    /\ events' = create_user_events(obj_in)
    /\ UNCHANGED <<now, ticks, tokens, groupvars, session>>

\* User.update_user(db_obj=..., obj_in=...) on a row the caller has just
\* loaded
User_update_user(db_obj, obj_in) ==
    /\ Room
    /\ LET r == [NewReq("User.update_user") EXCEPT !.body = obj_in, !.obj = db_obj,
                                                   !.target = db_obj.id]
           new_obj == setattr_all(db_obj, update_data(obj_in))
           table == flush_update(users, db_obj, new_obj, update_data(obj_in))
       IN  IF db_obj.deleted_at # NULL
           THEN Accept(Raise(r, "Cannot update deleted user")) /\ UNCHANGED users
           ELSE IF "password" \in DOMAIN obj_in /\ ~password_valid(obj_in.password)
           THEN Accept(Raise(r, "ValidationError")) /\ UNCHANGED users
           ELSE IF ~username_unique(table)
           THEN Accept(Raise(r, "IntegrityError")) /\ UNCHANGED users
           ELSE users' = table /\ Accept(Answer(r, 200, ""))
    /\ events' = update_user_events(get_user_by_id(db_obj.id, TRUE), obj_in)
    /\ UNCHANGED <<nextId, now, ticks, tokens, groupvars, session>>

\* User.delete_user(user_id) on an existing row
User_delete_user(user_id) ==
    /\ Room
    /\ \E row \in users : row.id = user_id
    /\ users' = {IF row.id = user_id THEN [row EXCEPT !.deleted_at = now]
                 ELSE row : row \in users}
    /\ Accept(Answer([NewReq("User.delete_user") EXCEPT !.target = user_id], 200, ""))
    /\ events' = delete_user_events
    /\ UNCHANGED <<nextId, now, ticks, tokens, groupvars, session>>

\* User.update_password(user_id, plain_password): the row is read with the
\* default filter, the password is hashed, and the hash is set on the row
User_update_password(user_id, plain_password) ==
    /\ Room
    /\ LET r == [NewReq("User.update_password") EXCEPT
                     !.target = user_id, !.body = [password |-> plain_password]]
           user == get_user_by_id(user_id, FALSE)
       IN  /\ events' = update_password_events(user, plain_password)
           /\ IF ~password_valid(plain_password)
              THEN Accept(Raise(r, "ValidationError")) /\ UNCHANGED users
              ELSE IF ~IsRow(user)
              THEN Accept(Raise(r, "AttributeError")) /\ UNCHANGED users
              ELSE /\ users' = {IF row.id = user.id
                                THEN [row EXCEPT !.hashed_password =
                                                     pwd_hash(plain_password)]
                                ELSE row : row \in users}
                   /\ Accept(Answer([r EXCEPT !.obj = user], 200, ""))
    /\ UNCHANGED <<nextId, now, ticks, tokens, groupvars, session>>

(* ------- the startup, the admin panel's login and its CSV import ------ *)

initial_admin_username == "admin"
initial_admin_password == "admin123"
DEFAULT_PASSWORD == "password123"

\* usernames UserBase.username_valid rejects: too short, and blank
TooShortName == "ab"
Blank == "   "

\* the username column of a row of an uploaded CSV file
CsvNames == Names \cup {initial_admin_username, TooShortName, Blank, ""}

\* str.strip, on the strings above: only Blank has whitespace
strip(string) == IF string = Blank THEN "" ELSE string

\* UserBase.username_valid: not empty after strip, 3 to 100 characters
username_valid(username) ==
    /\ strip(username) # ""
    /\ Len(strip(username)) >= 3 /\ Len(strip(username)) <= 100

\* lifespan, the startup of main.py: the initial admin is looked up by name
\* and, when absent, User.create_user is called with the keywords username,
\* plain_password and is_admin.  create_user takes the one keyword obj_in,
\* so the call raises TypeError before anything is awaited, and lifespan
\* raises it again.
lifespan ==
    /\ Room
    /\ LET r == [NewReq("lifespan") EXCEPT
                     !.body = [username |-> initial_admin_username,
                               plain_password |-> initial_admin_password,
                               is_admin |-> TRUE]]
           existing_admin == get_user_by_username(initial_admin_username, FALSE)
       IN  IF existing_admin = MultipleResultsFound
           THEN Accept(Raise(r, "MultipleResultsFound"))
           ELSE IF ~IsRow(existing_admin)
           THEN Accept(Raise(r, "TypeError"))
           ELSE Accept(Answer([r EXCEPT !.obj = existing_admin], 200,
                              "already exists"))
    /\ UNCHANGED <<users, nextId, now, ticks, tokens, groupvars, adminvars>>

\* process_csv_file, for one row of the file: a row without username is an
\* error; any other row is passed to User.create_user with DEFAULT_PASSWORD,
\* and an exception of create_user is counted as an error
process_csv_file(username, is_admin) ==
    /\ Room
    /\ LET user_data == [username |-> username, password |-> DEFAULT_PASSWORD,
                         is_admin |-> is_admin]
           r == [NewReq("process_csv_file") EXCEPT !.body = user_data]
           new_user == [id |-> nextId,
                        username |-> username,
                        hashed_password |-> pwd_hash(DEFAULT_PASSWORD),
                        is_admin |-> is_admin,
                        deleted_at |-> NULL]
       IN  IF username = ""
           THEN Accept(Answer(r, 200, "username is required"))
                /\ UNCHANGED <<users, nextId>>
           ELSE IF ~username_unique(users \cup {new_user})
           THEN Accept(Answer(r, 200, "IntegrityError"))
                /\ UNCHANGED <<users, nextId>>
           ELSE /\ nextId <= MaxId
                /\ users' = users \cup {new_user}
                /\ nextId' = nextId + 1
                /\ Accept(Answer([r EXCEPT !.obj = new_user], 200, ""))
    /\ UNCHANGED <<now, ticks, tokens, groupvars, adminvars>>

\* what AdminAuth.login and AdminAuth.authenticate return
True == "True"
False == "False"

\* AdminAuth.login: authenticate_user, then an access token for the username
\* is stored in the session
AdminAuth_login(username, password) ==
    /\ Room
    /\ LET r == [NewReq("AdminAuth.login") EXCEPT
                     !.body = [username |-> username, password |-> password]]
           user == authenticate_user(username, password)
           access_token == create_access_token(
               username, timedelta(jwt_access_token_expire_minutes), user.id)
       IN  IF user = MultipleResultsFound
           THEN Accept(Raise(r, "MultipleResultsFound"))
                /\ UNCHANGED <<tokens, session>>
           ELSE IF ~IsRow(user)
           THEN Accept(Answer(r, 200, False)) /\ UNCHANGED <<tokens, session>>
           ELSE /\ tokens' = tokens \cup {access_token}
                /\ Cardinality(tokens') <= MaxTokens
                /\ session' = access_token
                /\ Accept(Answer([r EXCEPT !.obj = user, !.issued = access_token],
                                 200, True))
    /\ UNCHANGED <<users, nextId, now, ticks, groupvars, events>>

\* AdminAuth.logout: request.session.clear()
AdminAuth_logout ==
    /\ Room
    /\ session' = NoToken
    /\ Accept(Answer(NewReq("AdminAuth.logout"), 200, True))
    /\ UNCHANGED <<users, nextId, now, ticks, tokens, groupvars, events>>

\* AdminAuth.authenticate: the session's token decodes, has a sub, and the
\* sub names a user
authenticate(token) ==
    IF token = NoToken THEN FALSE
    ELSE IF ~decode_token(token, jwt_secret_key, {jwt_algorithm}) THEN FALSE
    ELSE IF token.sub = NoSub THEN FALSE
    ELSE get_user_by_username(token.sub, FALSE) # None

AdminAuth_authenticate ==
    /\ Room
    /\ LET r == [NewReq("AdminAuth.authenticate") EXCEPT !.token = session]
           user == get_user_by_username(session.sub, FALSE)
       IN  IF authenticate(session) /\ user = MultipleResultsFound
           THEN Accept(Raise(r, "MultipleResultsFound"))
           ELSE IF authenticate(session)
           THEN Accept(Answer([r EXCEPT !.obj = user], 200, True))
           ELSE Accept(Answer(r, 200, False))
    /\ UNCHANGED <<users, nextId, now, ticks, tokens, groupvars, adminvars>>

(* ------------------------------ clock --------------------------------- *)

Tick(d) ==
    /\ ticks < MaxTicks
    /\ now' = now + d
    /\ ticks' = ticks + 1
    /\ resp' = NoResp
    /\ UNCHANGED <<users, nextId, tokens, reqs, accepted, groupvars, adminvars>>

\* time passes: a moment, or the lifetime of an access token
Elapse(d) ==
    /\ ticks < MaxElapse
    /\ now' = now + d
    /\ ticks' = ticks + 1
    /\ resp' = NoResp
    /\ UNCHANGED <<users, nextId, tokens, reqs, accepted, groupvars, adminvars>>

Init ==
    /\ users = {}
    /\ nextId = 1
    /\ now = 0
    /\ ticks = 0
    /\ tokens = {}
    /\ reqs = EmptyBag
    /\ resp = NoResp
    /\ accepted = 0
    /\ groups = {}
    /\ nextGroupId = 1
    /\ session = NoToken
    /\ events = <<>>

Next ==
    \/ Tick(1)
    \/ \E n \in Names, p \in Passwords, a \in BOOLEAN : create_user_check(n, p, a)
    \/ \E r \in InFlight : create_user_insert(r)
    \/ \E n \in Names, p \in Passwords : login_for_access_token(n, p)
    \/ \E t \in Presentable : refresh_access_token(t)
    \/ create_access_token_without_sub
    \/ \E t \in Presentable, b \in UserUpdate : update_user_me(t, b)
    \/ \E t \in Presentable, u \in 1..MaxId, b \in UserUpdate : update_user(t, u, b)
    \/ \E r \in InFlight : update_user_lookup(r)
    \/ \E r \in InFlight : User_update_user_check(r)
    \/ \E r \in InFlight : User_update_user_commit(r)
    \/ \E o \in DeleteOps, t \in Presentable, u \in 1..MaxId : delete_user(o, t, u)
    \/ \E r \in InFlight : delete_user_lookup(r)
    \/ \E r \in InFlight : User_delete_user_get(r)
    \/ \E r \in InFlight : User_delete_user_commit(r)
    \/ \E r \in InFlight : User_delete_user_permanently_commit(r)

Spec == Init /\ [][Next]_vars

\* the life of a token: users are created, log in and call a protected
\* operation while time passes
NextExpiry ==
    \/ \E d \in {1, timedelta(ACCESS_TOKEN_EXPIRE_MINUTE)} : Elapse(d)
    \/ \E n \in Names, p \in Passwords, a \in BOOLEAN : create_user_check(n, p, a)
    \/ \E r \in InFlight : create_user_insert(r)
    \/ \E n \in Names, p \in Passwords : login_for_access_token(n, p)
    \/ \E t \in Presentable, b \in UserUpdate : update_user_me(t, b)
    \/ \E r \in InFlight : User_update_user_check(r)
    \/ \E r \in InFlight : User_update_user_commit(r)

SpecExpiry == Init /\ [][NextExpiry]_vars

\* the tokens a client can send, and no token at all
Sendable == Presentable \cup {NoToken}

\* the routes behind get_current_user, with the creates and the login that
\* give them users and tokens
NextAccess ==
    \/ \E n \in Names, p \in Passwords, a \in BOOLEAN : create_user_check(n, p, a)
    \/ \E r \in InFlight : create_user_insert(r)
    \/ \E n \in Names, p \in Passwords : login_for_access_token(n, p)
    \/ \E o \in DeleteOps, t \in Sendable, u \in 1..MaxId : delete_user(o, t, u)
    \/ \E r \in InFlight : delete_user_lookup(r)
    \/ \E r \in InFlight : User_delete_user_get(r)
    \/ \E r \in InFlight : User_delete_user_commit(r)
    \/ \E r \in InFlight : User_delete_user_permanently_commit(r)
    \/ \E t \in Sendable, b \in UserUpdate : update_user_me(t, b)
    \/ \E t \in Sendable, u \in 1..MaxId, b \in UserUpdate : update_user(t, u, b)
    \/ \E r \in InFlight : update_user_lookup(r)
    \/ \E r \in InFlight : User_update_user_check(r)
    \/ \E r \in InFlight : User_update_user_commit(r)
    \/ \E t \in Sendable, u \in 1..MaxId : read_user_by_id(t, u)
    \/ \E t \in Sendable, n \in Names : read_user_by_username(t, n)
    \/ \E t \in Sendable : read_all_users(t)
    \/ \E r \in InFlight : read_user(r)
    \/ \E t \in Sendable, g \in GroupNames : create_group(t, g)
    \/ \E r \in InFlight : Group_create_group(r)
    \/ \E t \in Sendable, g \in 1..MaxGroups : read_group_by_id(t, g)
    \/ \E t \in Sendable : read_all_groups(t)
    \/ \E r \in InFlight : read_group(r)
    \/ \E t \in Sendable, g \in 1..MaxGroups, n \in GroupNames :
           change_group("update_group", t, g, [groupname |-> n])
    \/ \E t \in Sendable, g \in 1..MaxGroups :
           change_group("delete_group", t, g, EmptyBody)
    \/ \E r \in InFlight : update_group_lookup(r)
    \/ \E r \in InFlight : Group_update_group(r)
    \/ \E r \in InFlight : delete_group_lookup(r)
    \/ \E r \in InFlight : Group_delete_group_get(r)
    \/ \E r \in InFlight : Group_delete_group_commit(r)

SpecAccess == Init /\ [][NextAccess]_vars

\* the store's classmethods called one after the other
NextStore ==
    \/ Tick(1)
    \/ \E obj_in \in CreateDicts : User_create_user(obj_in)
    \/ \E db_obj \in users, obj_in \in UpdateDicts : User_update_user(db_obj, obj_in)
    \/ \E user_id \in 1..MaxId : User_delete_user(user_id)
    \/ \E user_id \in 1..MaxId, p \in Passwords \cup {TooShort} :
           User_update_password(user_id, p)

SpecStore == Init /\ [][NextStore]_vars

\* the startup, registration, and the admin panel with its views behind
\* AdminAuth
NextAdmin ==
    \/ lifespan
    \/ \E n \in Names, p \in Passwords, a \in BOOLEAN : create_user_check(n, p, a)
    \/ \E r \in InFlight : create_user_insert(r)
    \/ \E n \in Names \cup {initial_admin_username},
          p \in Passwords \cup {DEFAULT_PASSWORD} : AdminAuth_login(n, p)
    \/ AdminAuth_logout
    \/ AdminAuth_authenticate
    \/ /\ authenticate(session)
       /\ \E n \in CsvNames, a \in BOOLEAN : process_csv_file(n, a)
    \/ \E user_id \in 1..MaxId : User_delete_user(user_id)

SpecAdmin == Init /\ [][NextAdmin]_vars

(* ------------------------------ claims -------------------------------- *)

Active(table) == {u \in table : u.deleted_at = NULL}
UpdateOps == {"update_user_me", "update_user"}

\* C1: in every reachable state no two users with deleted_at = null hold the
\* same username, whatever creates, updates (renames included), soft deletes
\* and hard deletes have run and however they interleaved.
C1_ActiveUsernamesUnique ==
    \A u1, u2 \in Active(users) : u1.username = u2.username => u1 = u2

\* an update that renames a user to a name another row holds was refused by
\* the constraint
C1_Witness ==
    /\ resp.op \in UpdateOps
    /\ resp.detail = "IntegrityError"
    /\ "username" \in DOMAIN resp.body
    /\ \E u \in users : u.username = resp.body.username /\ u.id # resp.obj.id

\* C2: a create-user request that loses the race for a username (an active
\* row holds its username when it is answered) is answered 200 if it is the
\* one that inserted the row and 400, the ConflictError, otherwise.
C2_ConcurrentCreateConflict ==
    (/\ resp.op = "create_user"
     /\ \E u \in Active(users) : u.username = resp.body.username)
    => resp.status \in {200, 400}

\* C3: a create with the username of a soft-deleted user, and of no active
\* user, succeeds and yields a new active user of that name.
C3_ReuseAfterSoftDelete ==
    (/\ resp.op = "create_user"
     /\ resp.detail # "Username already exists"
     /\ \E u \in users : u.username = resp.body.username /\ u.deleted_at # NULL)
    => /\ resp.status = 200
       /\ \E u \in Active(users) : u.username = resp.body.username

\* C4: a soft-deleted user is left out by every read in the default scope,
\* and returned, with deleted_at set, by the same read with
\* include_deleted=True.
C4_SoftDeleteVisibility ==
    \A u \in users : u.deleted_at # NULL =>
        /\ get_user_by_id(u.id, FALSE) # u
        /\ get_user_by_username(u.username, FALSE) # u
        /\ u \notin get_all_users(FALSE)
        /\ get_user_by_id(u.id, TRUE) = u
        /\ get_user_by_username(u.username, TRUE) = u
        /\ u \in get_all_users(TRUE)

\* a soft delete has just been answered, and its row is still in the table
C4_Witness ==
    /\ resp.op = "delete_user" /\ resp.status = 200
    /\ \E u \in users : u.id = resp.target /\ u.deleted_at # NULL

\* C5: an update whose target row is soft-deleted by the time the update is
\* answered (it was active when the caller looked it up) is answered 404.
C5_UpdateOfSoftDeleted ==
    (/\ resp.op \in UpdateOps
     /\ \E u \in users : u.id = resp.obj.id /\ u.deleted_at # NULL)
    => resp.status = 404

ProtectedOps == UpdateOps \cup DeleteOps
Holders(name) == {u \in Active(users) : u.username = name}
AccessTtl == timedelta(ACCESS_TOKEN_EXPIRE_MINUTE)

\* C6: access and refresh tokens are never accepted interchangeably: no
\* protected request is authenticated by a token create_refresh_token issued,
\* and no refresh succeeds with a token create_access_token issued.
C6_TokensNotInterchangeable ==
    /\ \A t \in tokens : t.typ = "refresh" => get_current_user(t) = None
    /\ \A r \in InFlight \cup {resp} :
          (r.op \in ProtectedOps /\ IsRow(r.caller)) => r.token.typ # "refresh"
    /\ (resp.op = "refresh_access_token" /\ resp.status = 200)
          => resp.token.typ # "access"

C7_Accepted ==
    \A t \in tokens : (t.typ = "access" /\ Holders(t.sub) # {}) =>
        /\ now < t.iat + AccessTtl => IsRow(get_current_user(t))
        /\ now >= t.iat + AccessTtl + TicksPerSecond => ~IsRow(get_current_user(t))

\* a step that accepts a protected request: an expired token is answered 401
\* at once, and the request goes on only with a token that has not expired
C7_Enforced ==
    accepted' > accepted =>
        /\ (resp'.op \in ProtectedOps /\ ExpiredSignatureError(resp'.token))
              => resp'.status = 401
        /\ \A r \in BagToSet(reqs') :
              (r.op \in ProtectedOps /\ CopiesIn(r, reqs') > CopiesIn(r, reqs))
                  => ~ExpiredSignatureError(r.token)

C7_StaysExpired ==
    \A t \in tokens :
        ExpiredSignatureError(t) => (ExpiredSignatureError(t) /\ ~IsRow(get_current_user(t)))'

C8_ResolveCurrentUser ==
    /\ \A t \in Presentable :
          IF /\ jwt_decode(t, jwt_secret_key, {jwt_algorithm})
             /\ t.sub # NoSub
             /\ Holders(t.sub) # {}
          THEN get_current_user(t) \in Holders(t.sub)
          ELSE get_current_user(t) = None
    /\ \A r \in InFlight :
          r.op \in ProtectedOps =>
              r.caller.username = r.token.sub /\ r.caller.deleted_at = NULL
    /\ (resp.op \in ProtectedOps /\ resp.status = 401) =>
          /\ resp.detail = "Could not validate credentials"
          /\ get_current_user(resp.token) = None

\* the token of a user who has been soft-deleted since was presented and
\* answered 401
C8_Witness ==
    /\ resp.op \in ProtectedOps /\ resp.status = 401
    /\ resp.token.typ = "access"
    /\ \E u \in users : /\ u.id = resp.token.uid
                        /\ u.username = resp.token.sub
                        /\ u.deleted_at # NULL

\* C9: authenticate_user returns the user exactly when a non-deleted user of
\* that username exists and the password verifies against its stored hash;
\* otherwise it returns None, and login answers 401 "Incorrect username or
\* password" whichever check failed.
C9_Authenticate ==
    /\ \A n \in Names, p \in Passwords :
          LET ok == {u \in Holders(n) : pwd_verify(p, u.hashed_password)}
          IN  IF ok # {} THEN authenticate_user(n, p) \in ok
              ELSE authenticate_user(n, p) = None
    /\ resp.op = "login_for_access_token" =>
          IF \E u \in Holders(resp.body.username) :
                 pwd_verify(resp.body.password, u.hashed_password)
          THEN resp.status = 200 /\ resp.obj \in Holders(resp.body.username)
          ELSE resp.status = 401 /\ resp.detail = "Incorrect username or password"

\* a login with the wrong password for an existing user was answered 401
C9_Witness ==
    /\ resp.op = "login_for_access_token" /\ resp.status = 401
    /\ Holders(resp.body.username) # {}

\* the rows of the table that a step changes, removes or adds
Touched == {u.id : u \in (users \ users') \cup (users' \ users)}

C10_Rejected ==
    /\ \A r \in InFlight : r.op = "update_user" => r.caller.is_admin
    /\ (resp.op = "update_user" /\ IsRow(resp.caller) /\ ~resp.caller.is_admin)
          => resp.status = 403

\* the step in which an update request writes the table
C10_Effect ==
    (resp'.op \in UpdateOps /\ users' # users) =>
        (Touched \subseteq {resp'.caller.id} \/ resp'.caller.is_admin)

C10_Unchanged ==
    (resp'.op = "update_user" /\ resp'.status = 403) => users' = users

\* C10: an update of a user's record takes effect only if the caller, as
\* get_current_user resolved it for the request, is that user or an admin; a
\* non-admin's request to update another user's record is answered 403 and
\* leaves the record unchanged.
C10_SelfOrAdmin ==
    /\ []C10_Rejected
    /\ [][C10_Effect]_vars
    /\ [][C10_Unchanged]_vars

\* a non-admin asked to update the row of another existing user: 403
C10_Witness ==
    /\ resp.op = "update_user" /\ resp.status = 403
    /\ IsRow(resp.caller) /\ ~resp.caller.is_admin
    /\ \E u \in users : u.id = resp.target /\ u.id # resp.caller.id

\* C11: a non-admin who updates their own record addressed by their own user
\* id, PUT /users/{user_id}, with a payload that names no is_admin, is
\* answered 200 as long as their row is there and active.
C11_SelfUpdateById ==
    (/\ resp.op = "update_user"
     /\ IsRow(resp.caller) /\ ~resp.caller.is_admin
     /\ resp.target = resp.caller.id
     /\ "is_admin" \notin DOMAIN resp.body
     /\ get_user_by_id(resp.target, FALSE) = resp.caller)
    => resp.status = 200

\* r is a protected request whose caller was resolved to a non-admin
NonAdminCaller(r) == r.op \in ProtectedOps /\ IsRow(r.caller) /\ ~r.caller.is_admin

C12_Rejected ==
    (/\ resp.op \in UpdateOps
     /\ NonAdminCaller(resp)
     /\ "is_admin" \in DOMAIN resp.body
     /\ resp.body.is_admin # resp.caller.is_admin)
    => resp.status = 403

\* every write of the table is made by the step that answers the request
C12_IsAdminKept ==
    NonAdminCaller(resp')
    => \A u \in users : \A v \in users' : v.id = u.id => v.is_admin = u.is_admin

RefreshDecodes(t) ==
    /\ t.key = jwt_refresh_secret_key /\ t.alg = jwt_refresh_algorithm
    /\ t.exp >= now \div TicksPerSecond

C16_DistinctTokenStrings ==
    [][(resp'.op = "refresh_access_token" /\ resp'.status = 200) =>
          \A t \in tokens :
              (t.typ = "access" /\ t.sub = resp'.issued.sub /\ t.iat = now)
                  => TokenString(t) # TokenString(resp'.issued)]_vars

\* the step answers an update with 200: it has written the table
Updated == resp'.op \in UpdateOps /\ resp'.status = 200

PasswordUpdated == Updated /\ "password" \in DOMAIN resp'.body

\* C19, as stated: after an update whose payload includes a password p',
\* verifying the user's previous password fails, verifying p' succeeds, and
\* the stored hashed_password is the hash of p', not p' itself.
C19_PasswordReplaced ==
    [][PasswordUpdated =>
          \A u \in users : \A v \in users' : (v.id = u.id /\ u.id = resp'.obj.id) =>
              /\ \A p \in Passwords :
                    pwd_verify(p, u.hashed_password) => ~pwd_verify(p, v.hashed_password)
              /\ pwd_verify(resp'.body.password, v.hashed_password)
              /\ v.hashed_password # Raw(resp'.body.password)]_vars

\* C19, amended: after an update whose payload includes a password p',
\* verifying p' succeeds, the stored hashed_password is the hash of p', not p'
\* itself, and verifying the user's previous password fails when it is not p'.
C19_PasswordReplacedUnlessSame ==
    [][PasswordUpdated =>
          \A u \in users : \A v \in users' : (v.id = u.id /\ u.id = resp'.obj.id) =>
              /\ \A p \in Passwords \ {resp'.body.password} :
                    pwd_verify(p, u.hashed_password) => ~pwd_verify(p, v.hashed_password)
              /\ pwd_verify(resp'.body.password, v.hashed_password)
              /\ v.hashed_password = pwd_hash(resp'.body.password)
              /\ v.hashed_password # Raw(resp'.body.password)]_vars

\* a password was replaced by a different one
C19_Witness ==
    /\ resp.op \in UpdateOps /\ resp.status = 200
    /\ "password" \in DOMAIN resp.body
    /\ ~pwd_verify(resp.body.password, resp.obj.hashed_password)
    /\ \E u \in users : u.id = resp.obj.id
                        /\ pwd_verify(resp.body.password, u.hashed_password)

\* C20: a soft delete of a user that is already soft-deleted leaves the row
\* as the first soft delete left it.
C20_SoftDeleteIdempotent ==
    [][(resp'.op = "delete_user" /\ resp'.status = 200) =>
          \A u \in users : (u.id = resp'.target /\ u.deleted_at # NULL)
                              => u \in users']_vars

\* C17: in every reachable state the hashed_password of each user is the
\* hash of a plaintext of 8 to 30 characters, whatever dicts the callers of
\* User.create_user and User.update_user pass.
C17_HashedFromValidPlaintext ==
    \A u \in users :
        \E p \in Passwords \cup {TooShort} :
            password_valid(p) /\ u.hashed_password = pwd_hash(p)

\* the operations behind get_current_user
AccessOps == ProtectedOps \cup ReadOps \cup GroupOps
RemoveOps == DeleteOps \cup {"delete_group"}

\* the user or the group a delete request names is there to be deleted
TargetVisible(r) ==
    IF r.op = "delete_group" THEN get_group_by_id(r.target) # NoGroup
    ELSE IsRow(get_user_by_id(r.target, FALSE))

\* a step of a delete request changes the tables only for an admin caller
C13_OnlyAdmin ==
    (resp'.op \in RemoveOps /\ (users' # users \/ groups' # groups))
    => resp'.caller.is_admin

\* a non-admin's delete of a target that is there: 403, nothing changes
C13_Forbidden ==
    (/\ resp'.op \in RemoveOps
     /\ IsRow(resp'.caller) /\ ~resp'.caller.is_admin
     /\ TargetVisible(resp'))
    => /\ resp'.status = 403
       /\ users' = users /\ groups' = groups

Unresolved(token) == token = NoToken \/ get_current_user(token) = None

\* the request that arrives in this step without an identity is answered
\* 401 in this step, and the step leaves the tables alone; a request that
\* arrives and stays in flight has an identity
C14_Arrival ==
    accepted' # accepted
    => /\ (resp'.op \in AccessOps /\ Unresolved(resp'.token))
          => /\ resp'.status = 401
             /\ resp'.obj = None
             /\ users' = users /\ groupvars' = groupvars
       /\ \A r \in BagToSet(reqs') :
             (CopiesIn(r, reqs') > CopiesIn(r, reqs) /\ r.op \in AccessOps)
             => ~Unresolved(r.token)

\* the handlers' reads and writes are made by requests in flight, and each
\* of them has the user its token resolved to
C14_Identified == \A r \in InFlight : r.op \in AccessOps => IsRow(r.caller)

C21_DeleteOfAbsent ==
    [][(/\ resp'.op \in DeleteOps
        /\ IsRow(resp'.caller)
        /\ ~\E row \in users : row.id = resp'.target)
       => (resp'.status = 404 /\ users' = users)]_vars

\* C22: a hard delete by an admin of a user id that has a row, active or
\* soft-deleted, is answered 200, and no row of that id is left in the table
\* afterwards, whatever its deleted_at.
C22_HardDeleteOfAnyRow ==
    [][(/\ resp'.op = "delete_user_permanently"
        /\ IsRow(resp'.caller) /\ resp'.caller.is_admin
        /\ \E row \in users : row.id = resp'.target)
       => /\ resp'.status = 200
          /\ ~\E row \in users' : row.id = resp'.target]_vars

\* C26: a token never resolves to a user other than the one it was issued
\* for: get_current_user on an issued token returns the user whose id the
\* token was issued to, or rejects the token.
C26_TokenKeepsItsUser ==
    \A t \in tokens :
        LET user == get_current_user(t)
        IN  (t.uid # 0 /\ IsRow(user)) => user.id = t.uid

\* C27: registration, which needs no token, never produces a user with
\* is_admin = true.
C27_RegistrationGrantsNoAdmin ==
    (resp.op = "create_user" /\ resp.status = 200) => ~resp.obj.is_admin

\* C29: update_user_me with a payload that does not name is_admin is never
\* answered 403, and leaves the caller's is_admin as it was.
C29_NoIsAdminNo403 ==
    [][(/\ resp'.op = "update_user_me"
        /\ IsRow(resp'.caller)
        /\ "is_admin" \notin DOMAIN resp'.body)
       => /\ resp'.status # 403
          /\ \A u \in users : \A v \in users' :
                 (u.id = resp'.caller.id /\ v.id = u.id) => v.is_admin = u.is_admin]_vars

\* C30: once a row's deleted_at is set, no step sets it back to NULL or
\* changes another field of the row; the row can only be removed.
C30_SoftDeletedIsFrozen ==
    [][\A u \in users : \A v \in users' :
           (u.deleted_at # NULL /\ v.id = u.id)
           => /\ v.deleted_at # NULL
              /\ v.username = u.username
              /\ v.hashed_password = u.hashed_password
              /\ v.is_admin = u.is_admin]_vars

\* the sessions open before the i-th event of a store call
Depth(seq, i) ==
    Cardinality({j \in 1..(i - 1) : seq[j] = Enter})
    - Cardinality({j \in 1..(i - 1) : seq[j] = Exit})

\* C25: in user create, update and password update, no password hash is
\* computed while a database session opened by the operation is open.
C25_HashOutsideSession ==
    \A i \in 1..Len(events) : events[i] = Hash => Depth(events, i) = 0

\* C23: every user row has a username of 3 to 100 characters that is not
\* blank after trimming, whichever caller of the store persisted it: the
\* HTTP API, the CSV import or the startup.
C23_UsernamesValid == \A u \in users : username_valid(u.username)

\* C24: a startup that finds no user of the initial admin's name creates one
\* with is_admin = true, and a startup that finds one leaves the users as
\* they are.
C24_SeedCreatesIfAbsent ==
    [][resp'.op = "lifespan"
       => IF Holders(initial_admin_username) = {}
          THEN \E u \in Active(users') :
                   u.username = initial_admin_username /\ u.is_admin
          ELSE users' = users]_vars

\* C28: the admin panel's login returns True only for an active user whose
\* is_admin is true.
C28_AdminPanelLoginOnlyAdmins ==
    (resp.op = "AdminAuth.login" /\ resp.detail = True)
    => \E u \in Active(users) : u.username = resp.body.username /\ u.is_admin

====
